---- MODULE Spec2Model ----
(***************************************************************************)
(* The report-generation route handler POST of open-deep-research          *)
(* (src/unnamed/part_000) as a state machine: one request is taken from    *)
(* its JSON body through the rate-limit check, the catalog lookup in       *)
(* CONFIG, prompt construction, the single provider call, the extraction   *)
(* of the JSON document from the completion and the final response.        *)
(* ConcSpec runs several such requests interleaved at their awaits, and    *)
(* SiblingSpec is a request to the search or the fetch-content handler     *)
(* (src/app/api/search/route.ts, src/app/api/fetch-content/route.ts).      *)
(*                                                                         *)
(* Strings are sequences of tokens.  A selector is a sequence over         *)
(* platform names, model names and the separator "__"; a completion is a   *)
(* sequence of JSON lexemes and prose words.  split, the regular           *)
(* expression and JSON.parse work on these sequences as the JavaScript     *)
(* functions work on characters.                                           *)
(*                                                                         *)
(* An optional value is a sequence of length at most one: <<>> is          *)
(* JavaScript's undefined, <<v>> is the value v.                           *)
(***************************************************************************)
EXTENDS Naturals, Sequences, FiniteSets

VARIABLES
    CONFIG,         \* the imported configuration (rate limits, platforms)
    body,           \* the fields POST destructures from the request body
    pc,             \* the handler's position
    platform,       \* const platform = platformModel.split('__')[0]
    model,          \* const model = platformModel.split('__')[1]
    systemPrompt,   \* const systemPrompt
    response,       \* let response: string | null
    pending,        \* an exception thrown inside the inner try, before finally
    jsonMatch,      \* const jsonMatch
    result,         \* what POST has returned (the NextResponse)
    limiterCalls,   \* calls of reportContentRatelimit.limit
    limiterSaid,    \* what that call answered
    catalogLookups, \* reads of CONFIG.platforms[platform]
    promptBuilds,   \* calls of generateSystemPrompt
    adapterCalls,   \* calls of generateWith{Gemini,OpenAI,Anthropic}
    providerThrew,  \* the provider call of the adapter threw
    extractions,    \* evaluations of response.match
    logFailed,      \* some fs.appendFileSync of this request has thrown
    heard,          \* what the collaborators answered to this request's calls
    reqs,           \* the requests in flight, when several run concurrently
    sib             \* a request to one of the sibling handlers

\* the state outside the single report request
others == <<reqs, sib>>

vars == <<CONFIG, body, pc, platform, model, systemPrompt, response, pending,
          jsonMatch, result, limiterCalls, limiterSaid, catalogLookups,
          promptBuilds, adapterCalls, providerThrew, extractions, logFailed,
          heard, others>>

----------------------------------------------------------------------------
(* Optional values *)

None == <<>>
Some(v) == <<v>>

----------------------------------------------------------------------------
(* Bounds *)

\* at most this many platforms, and this many models, are switched off
MaxDisabled == 1

----------------------------------------------------------------------------
(* CONFIG: the catalog of platforms and models.  The entries are fixed;    *)
(* the enablement flags are configured outside the handler.                *)

Platforms == {"google", "openai", "anthropic"}

ModelsOf(p) ==
    CASE p = "google"    -> {"gemini-flash", "gemini-pro"}
      [] p = "openai"    -> {"gpt-4o"}
      [] p = "anthropic" -> {"haiku-3.5"}

Entries == {e \in Platforms \X {"gemini-flash", "gemini-pro", "gpt-4o", "haiku-3.5"} :
              e[2] \in ModelsOf(e[1])}

MakeConfig(limits, offPlatforms, offModels) ==
    [rateLimits |-> [enabled |-> limits],
     platforms  |-> [p \in Platforms |->
                       [enabled |-> p \notin offPlatforms,
                        models  |-> [m \in ModelsOf(p) |->
                                       [enabled |-> <<p, m>> \notin offModels]]]]]

Configs ==
    {MakeConfig(l, dp, dm) :
        l \in BOOLEAN,
        dp \in {x \in SUBSET Platforms : Cardinality(x) <= MaxDisabled},
        dm \in {x \in SUBSET Entries : Cardinality(x) <= MaxDisabled}}

----------------------------------------------------------------------------
(* The request body *)

SEP == "__"

\* platformModel as sent: absent, a JSON value that is no string, or a string
Absent == [type |-> "undefined", str |-> <<>>]
NonString == [type |-> "number", str |-> <<>>]
Str(s) == [type |-> "string", str |-> s]

\* platformModel = 'google-gemini-flash' (the destructuring default)
DefaultPlatformModel == Str(<<"google", "-", "gemini-flash">>)

Selectors ==
    {Absent, NonString,
     Str(<<"google", SEP, "gemini-flash">>),
     Str(<<"google", SEP, "gemini-pro">>),
     Str(<<"openai", SEP, "gpt-4o">>),
     Str(<<"anthropic", SEP, "haiku-3.5">>),
     Str(<<"openai", SEP, "gemini-flash">>),
     Str(<<"mistral", SEP, "gemini-flash">>),
     Str(<<"google", SEP, "constructor">>),
     Str(<<"gpt-4o">>),
     Str(<<"google">>)}

Prompts == {None, Some(""), Some("compare")}
ArticleLists == {None, Some(<<>>), Some(<<"article1">>)}
SourceLists == {None, Some(<<>>), Some(<<"src1", "src2">>)}

\* a body request.json() parses into an object
JsonBodies ==
    [json : {TRUE}, prompt : Prompts, selectedResults : ArticleLists,
     sources : SourceLists, platformModel : Selectors]

\* a body that is no JSON, or no object: nothing can be read from it
InvalidBody ==
    [json |-> FALSE, prompt |-> None, selectedResults |-> None, sources |-> None,
     platformModel |-> Absent]

Bodies == JsonBodies \cup {InvalidBody}

----------------------------------------------------------------------------
(* JavaScript helpers *)

\* String.prototype.split(SEP): the pieces between the separators
RECURSIVE Split(_)
Split(s) ==
    IF \E i \in 1..Len(s) : s[i] = SEP
    THEN LET i == CHOOSE k \in 1..Len(s) :
                    s[k] = SEP /\ \A j \in 1..(k - 1) : s[j] # SEP
         IN <<SubSeq(s, 1, i - 1)>> \o Split(SubSeq(s, i + 1, Len(s)))
    ELSE <<s>>

\* the members every object literal inherits from Object.prototype
ObjectPrototype == {"constructor", "toString"}

\* obj[key] for an object literal: an own property, an inherited member
\* (a function, which has no property `enabled`), or undefined.  An
\* undefined key reads the property named "undefined".
Get(obj, key) ==
    IF Len(key) = 1 /\ key[1] \in DOMAIN obj
    THEN [kind |-> "own", value |-> obj[key[1]]]
    ELSE IF Len(key) = 1 /\ key[1] \in ObjectPrototype
    THEN [kind |-> "inherited", value |-> <<>>]
    ELSE [kind |-> "undefined", value |-> <<>>]

Truthy(ref) == ref.kind # "undefined"

\* ref?.enabled
EnabledOf(ref) == ref.kind = "own" /\ ref.value.enabled

Undefined == <<"undefined">>

\* Resolve without the check of the model's own flag
ResolveIgnoringModelFlag(cfg, plat, mod) ==
    LET platformConfig == Get(cfg.platforms, plat) IN
    IF ~EnabledOf(platformConfig) THEN "platform is not enabled"
    ELSE LET modelConfig == Get(platformConfig.value.models, mod) IN
         IF ~Truthy(modelConfig) THEN "model does not exist"
         ELSE "ok"

\* the three checks of lines 132-153, in their order
Resolve(cfg, plat, mod) ==
    LET platformConfig == Get(cfg.platforms, plat) IN
    IF ~EnabledOf(platformConfig) THEN "platform is not enabled"
    ELSE LET modelConfig == Get(platformConfig.value.models, mod) IN
         IF ~Truthy(modelConfig) THEN "model does not exist"
         ELSE IF ~EnabledOf(modelConfig) THEN "model is disabled"
         ELSE "ok"

----------------------------------------------------------------------------
(* Completions and the JSON document inside them *)

\* A completion is a sequence of these tokens.  "prose" is any text that is
\* no JSON; "title:T" is the member "title":"T", "title:" the member
\* "title":"", "sections:[" opens the array of section objects.
Tokens == {"{", "}", ",", "]", "prose", "title:T", "title:", "summary:S",
           "sources:[m]", "sections:["}

EmptyDoc == [title |-> None, summary |-> None, sections |-> None, sources |-> None]

\* the member a brace-free token stands for, put into the object read so far
\* (a repeated key keeps the last value, as JSON.parse does)
PutMember(doc, tok) ==
    CASE tok = "title:T"     -> [doc EXCEPT !.title = Some("T")]
      [] tok = "title:"      -> [doc EXCEPT !.title = Some("")]
      [] tok = "summary:S"   -> [doc EXCEPT !.summary = Some("S")]
      [] tok = "sources:[m]" -> [doc EXCEPT !.sources = Some(<<"fromModel">>)]

AtomMembers == {"title:T", "title:", "summary:S", "sources:[m]"}

ParseFail == [ok |-> FALSE, val |-> <<>>, next |-> 0]

RECURSIVE ParseObject(_, _), ParseMembers(_, _, _), ParseElements(_, _, _)

\* an object starting at t[i]: "{" "}" or "{" members "}"
ParseObject(t, i) ==
    IF i > Len(t) \/ t[i] # "{" THEN ParseFail
    ELSE IF i + 1 <= Len(t) /\ t[i + 1] = "}"
    THEN [ok |-> TRUE, val |-> EmptyDoc, next |-> i + 2]
    ELSE ParseMembers(t, i + 1, EmptyDoc)

\* member ("," member)* "}" starting at t[i]
ParseMembers(t, i, doc) ==
    IF i > Len(t) THEN ParseFail
    ELSE LET m == IF t[i] \in AtomMembers
                  THEN [ok |-> TRUE, val |-> PutMember(doc, t[i]), next |-> i + 1]
                  ELSE IF t[i] = "sections:["
                  THEN LET a == ParseElements(t, i + 1, <<>>)
                       IN IF a.ok
                          THEN [ok |-> TRUE,
                                val |-> [doc EXCEPT !.sections = Some(a.val)],
                                next |-> a.next]
                          ELSE ParseFail
                  ELSE ParseFail
         IN IF ~m.ok \/ m.next > Len(t) THEN ParseFail
            ELSE IF t[m.next] = "}" THEN [m EXCEPT !.next = m.next + 1]
            ELSE IF t[m.next] = "," THEN ParseMembers(t, m.next + 1, m.val)
            ELSE ParseFail

\* the rest of an array of objects: "]" or object ("," object)* "]"
ParseElements(t, i, acc) ==
    IF i > Len(t) THEN ParseFail
    ELSE IF t[i] = "]" /\ acc = <<>>
    THEN [ok |-> TRUE, val |-> acc, next |-> i + 1]
    ELSE LET o == ParseObject(t, i)
         IN IF ~o.ok \/ o.next > Len(t) THEN ParseFail
            ELSE IF t[o.next] = "]"
            THEN [ok |-> TRUE, val |-> Append(acc, o.val), next |-> o.next + 1]
            ELSE IF t[o.next] = ","
            THEN ParseElements(t, o.next + 1, Append(acc, o.val))
            ELSE ParseFail

\* JSON.parse of a text that starts with "{": the whole text must be one object
JSONparse(t) ==
    LET r == ParseObject(t, 1)
    IN IF r.ok /\ r.next = Len(t) + 1
       THEN [ok |-> TRUE, val |-> r.val]
       ELSE [ok |-> FALSE, val |-> EmptyDoc]

\* response.match(/\{[\s\S]*\}/)?.[0]: from the first "{" to the last "}"
\* behind it; undefined when there is no such pair
Match(text) ==
    LET opens == {i \in 1..Len(text) : text[i] = "{"}
    IN IF opens = {} THEN None
       ELSE LET first == CHOOSE i \in opens : \A j \in opens : i <= j
                closes == {j \in (first + 1)..Len(text) : text[j] = "}"}
            IN IF closes = {} THEN None
               ELSE LET last == CHOOSE j \in closes : \A k \in closes : k <= j
                    IN Some(SubSeq(text, first, last))

Section == <<"{", "title:T", "}">>
GoodDocument ==
    <<"{", "title:T", ",", "summary:S", ",", "sections:[">> \o Section \o <<"]", "}">>

\* the completions a provider may return
Completions ==
    {<<"prose">>,
     <<"{", "prose">>,
     <<"}", "prose", "{">>,
     <<"{", "}">>,
     <<"{", "title:T", "}">>,
     <<"{", "title:T", ",", "sections:[", "]", "}">>,
     <<"{", "title:", ",", "sections:[">> \o Section \o <<"]", "}">>,
     GoodDocument,
     <<"prose">> \o GoodDocument \o <<"prose">>,
     <<"{", "sources:[m]", ",", "title:T", ",", "sections:[">> \o Section \o <<"]", "}">>,
     <<"{", "title:T", "}", "prose", "{", "}">>,
     <<"sections:[">> \o Section \o <<"]">>}

----------------------------------------------------------------------------
(* Responses *)

NoResult == [status |-> 0, error |-> "", subject |-> <<>>, report |-> None]

\* NextResponse.json({ error }, { status })
ErrorResponse(code, message, about) ==
    [status |-> code, error |-> message, subject |-> about, report |-> None]

\* NextResponse.json(reportData): a member whose value is undefined is
\* left out of the serialized document
ReportResponse(doc) ==
    [status |-> 200, error |-> "", subject |-> <<>>, report |-> Some(doc)]

\* AttachSources keeping a sources member the document already has
AttachSourcesIfMissing(doc, sources) ==
    IF doc.sources # None THEN doc ELSE [doc EXCEPT !.sources = sources]

\* reportData.sources = sources
AttachSources(doc, sources) == [doc EXCEPT !.sources = sources]

----------------------------------------------------------------------------
(* Prompt and adapters *)

\* generateSystemPrompt(articles, userPrompt): the request quoted, every
\* article rendered in order, then the output contract
generateSystemPrompt(articles, userPrompt) ==
    [request  |-> IF userPrompt = None THEN "undefined" ELSE userPrompt[1],
     articles |-> [i \in 1..Len(articles) |->
                     <<"Title", articles[i], "URL", articles[i],
                       "Content", articles[i], "---">>],
     contract |-> <<"title", "summary", "sections">>]

\* AdapterFor routing every model without a case to the Gemini adapter
AdapterForWithFallback(m) ==
    IF Len(m) # 1 THEN "none"
    ELSE CASE m[1] \in {"gpt-4o", "gpt-4o-mini", "o1-mini", "o1"} -> "openai"
           [] m[1] \in {"sonnet-3.5", "haiku-3.5"} -> "anthropic"
           [] OTHER -> "gemini"

\* the switch over model (lines 213-252); a model that is no key of the
\* switch reaches default
AdapterFor(m) ==
    IF Len(m) # 1 THEN "none"
    ELSE CASE m[1] \in {"gemini-flash", "gemini-flash-thinking", "gemini-exp"}
                -> "gemini"
           [] m[1] \in {"gpt-4o", "gpt-4o-mini", "o1-mini", "o1"} -> "openai"
           [] m[1] \in {"sonnet-3.5", "haiku-3.5"} -> "anthropic"
           [] OTHER -> "none"

\* what a call of an adapter can end with: the provider call throws, a log
\* write after it throws, or a value is returned
Threw(why) == [kind |-> why, value |-> None]
Returned(v) == [kind |-> "value", value |-> v]

\* result.response.text()
generateWithGemini ==
    {Threw("provider"), Threw("log")}
        \cup {Returned(Some(t)) : t \in Completions \cup {<<>>}}

\* response.choices[0].message.content, which may be null
generateWithOpenAI ==
    {Threw("provider"), Threw("log"), Returned(None)}
        \cup {Returned(Some(t)) : t \in Completions}

\* response.content[0].text || ''
generateWithAnthropic ==
    {Threw("provider"), Threw("log")}
        \cup {Returned(Some(t)) : t \in Completions \cup {<<>>}}

AdapterOutcomes(kind) ==
    CASE kind = "gemini"    -> generateWithGemini
      [] kind = "openai"    -> generateWithOpenAI
      [] kind = "anthropic" -> generateWithAnthropic

\* Falsy taking only null for no text
FalsyNullOnly(r) == r = None

\* !response
Falsy(r) == r = None \/ r = Some(<<>>)

----------------------------------------------------------------------------
(* The handler *)

\* the answer of a collaborator to a call of the request: the rate limiter's
\* verdict, a log write that returned or threw, the end of the adapter call
Answer(who, out) == [who |-> who, kind |-> out.kind, value |-> out.value]
LimiterAnswer(answer) == Answer("limiter", Threw(answer))
LogAnswer(logged) == Answer("log", Threw(IF logged THEN "written" ELSE "throw"))

Init ==
    /\ CONFIG \in Configs
    /\ body \in Bodies
    /\ pc = "start"
    /\ platform = <<>>
    /\ model = <<>>
    /\ systemPrompt = None
    /\ response = None
    /\ pending = FALSE
    /\ jsonMatch = None
    /\ result = NoResult
    /\ limiterCalls = 0
    /\ limiterSaid = "nothing"
    /\ catalogLookups = 0
    /\ promptBuilds = 0
    /\ adapterCalls = 0
    /\ providerThrew = FALSE
    /\ extractions = 0
    /\ logFailed = FALSE
    /\ heard = <<>>
    /\ reqs = <<>>
    /\ sib = [handler |-> "none"]

\* platformModel = 'google-gemini-flash' when the body has none
PlatformModel == 
    IF body.platformModel = Absent THEN DefaultPlatformModel ELSE body.platformModel

\* lines 101-113: await request.json() and the destructuring; both throw on
\* a body that is no JSON object
ParseBody ==
    /\ pc = "start"
    /\ pc' = IF body.json THEN "rateLimit" ELSE "catch"
    /\ UNCHANGED <<others, logFailed, heard, CONFIG, body, platform, model, systemPrompt, response, pending,
                   jsonMatch, result, limiterCalls, limiterSaid, catalogLookups,
                   promptBuilds, adapterCalls, providerThrew, extractions>>

\* lines 115-128 with rate limiting enabled: the limiter is asked, the time
\* is logged, and only then is the answer looked at
CheckRateLimit ==
    /\ pc = "rateLimit"
    /\ CONFIG.rateLimits.enabled
    /\ \E answer \in {"success", "reject", "throw"}, logged \in BOOLEAN :
         /\ limiterCalls' = limiterCalls + 1
         /\ limiterSaid' = answer
         /\ logFailed' = (logFailed \/ (answer # "throw" /\ ~logged))
         /\ heard' = IF answer = "throw"
                     THEN Append(heard, LimiterAnswer(answer))
                     ELSE heard \o <<LimiterAnswer(answer), LogAnswer(logged)>>
         /\ IF answer = "throw" \/ ~logged
            THEN pc' = "catch" /\ result' = result
            ELSE IF answer = "reject"
            THEN /\ pc' = "done"
                 /\ result' = ErrorResponse(429, "Too many requests", <<>>)
            ELSE pc' = "resolve" /\ result' = result
    /\ UNCHANGED <<others, CONFIG, body, platform, model, systemPrompt, response, pending,
                   jsonMatch, catalogLookups, promptBuilds, adapterCalls,
                   providerThrew, extractions>>

\* SkipRateLimit asking the limiter although rate limiting is disabled
SkipRateLimitAsking ==
    /\ pc = "rateLimit"
    /\ ~CONFIG.rateLimits.enabled
    /\ limiterCalls' = limiterCalls + 1
    /\ pc' = "resolve"
    /\ UNCHANGED <<others, logFailed, heard, CONFIG, body, platform, model, systemPrompt, response, pending,
                   jsonMatch, result, limiterSaid, catalogLookups,
                   promptBuilds, adapterCalls, providerThrew, extractions>>

\* line 115 with rate limiting disabled
SkipRateLimit ==
    /\ pc = "rateLimit"
    /\ ~CONFIG.rateLimits.enabled
    /\ pc' = "resolve"
    /\ UNCHANGED <<others, logFailed, heard, CONFIG, body, platform, model, systemPrompt, response, pending,
                   jsonMatch, result, limiterCalls, limiterSaid, catalogLookups,
                   promptBuilds, adapterCalls, providerThrew, extractions>>

\* lines 130-153: split the selector, look the platform and the model up
ResolveCatalog ==
    /\ pc = "resolve"
    /\ IF PlatformModel.type # "string"
       THEN \* platformModel.split is not a function
            /\ pc' = "catch"
            /\ UNCHANGED <<platform, model, catalogLookups, result>>
       ELSE LET parts == Split(PlatformModel.str)
                outcome == Resolve(CONFIG, platform', model')
            IN /\ platform' = parts[1]
               /\ model' = IF Len(parts) >= 2 THEN parts[2] ELSE Undefined
               /\ catalogLookups' = catalogLookups + 1
               /\ IF outcome = "ok"
                  THEN pc' = "prompt" /\ result' = result
                  ELSE /\ pc' = "done"
                       /\ result' = ErrorResponse(400, outcome,
                              IF outcome = "platform is not enabled"
                              THEN platform' ELSE model')
    /\ UNCHANGED <<others, logFailed, heard, CONFIG, body, systemPrompt, response, pending, jsonMatch,
                   limiterCalls, limiterSaid, promptBuilds, adapterCalls,
                   providerThrew, extractions>>

\* BuildPrompt refusing an empty selectedResults as it does a missing one
BuildPromptNeedingArticles ==
    /\ pc = "prompt"
    /\ promptBuilds' = promptBuilds + 1
    /\ IF body.selectedResults \in {None, Some(<<>>)}
       THEN pc' = "catch" /\ systemPrompt' = systemPrompt
       ELSE /\ pc' = "dispatch"
            /\ systemPrompt' =
                 Some(generateSystemPrompt(body.selectedResults[1], body.prompt))
    /\ UNCHANGED <<others, logFailed, heard, CONFIG, body, platform, model, response, pending, jsonMatch,
                   result, limiterCalls, limiterSaid, catalogLookups, adapterCalls,
                   providerThrew, extractions>>

\* line 205: articles.map throws when selectedResults is undefined
BuildPrompt ==
    /\ pc = "prompt"
    /\ promptBuilds' = promptBuilds + 1
    /\ IF body.selectedResults = None
       THEN pc' = "catch" /\ systemPrompt' = systemPrompt
       ELSE /\ pc' = "dispatch"
            /\ systemPrompt' =
                 Some(generateSystemPrompt(body.selectedResults[1], body.prompt))
    /\ UNCHANGED <<others, logFailed, heard, CONFIG, body, platform, model, response, pending, jsonMatch,
                   result, limiterCalls, limiterSaid, catalogLookups, adapterCalls,
                   providerThrew, extractions>>

\* Dispatch sharing the call of a request in flight that has the same
\* selector and prompt
DispatchDeduplicating ==
    /\ pc = "dispatch"
    /\ LET inFlight == \E j \in DOMAIN reqs.saved :
                          /\ reqs.saved[j].pc = "adapter"
                          /\ reqs.saved[j].body.platformModel = body.platformModel
                          /\ reqs.saved[j].body.prompt = body.prompt
       IN IF AdapterFor(model) = "none"
          THEN pc' = "finally" /\ pending' = TRUE /\ adapterCalls' = adapterCalls
          ELSE /\ pc' = "adapter" /\ pending' = pending
               /\ adapterCalls' = IF inFlight THEN adapterCalls ELSE adapterCalls + 1
    /\ UNCHANGED <<others, logFailed, heard, CONFIG, body, platform, model, systemPrompt, response, jsonMatch,
                   result, limiterCalls, limiterSaid, catalogLookups, promptBuilds,
                   providerThrew, extractions>>

\* lines 212-252: the switch calls one adapter, or throws in default
Dispatch ==
    /\ pc = "dispatch"
    /\ IF AdapterFor(model) = "none"
       THEN pc' = "finally" /\ pending' = TRUE /\ adapterCalls' = adapterCalls
       ELSE pc' = "adapter" /\ pending' = pending /\ adapterCalls' = adapterCalls + 1
    /\ UNCHANGED <<others, logFailed, heard, CONFIG, body, platform, model, systemPrompt, response, jsonMatch,
                   result, limiterCalls, limiterSaid, catalogLookups, promptBuilds,
                   providerThrew, extractions>>

\* AdapterReturn calling the adapter once more after a provider error
AdapterReturnWithRetry ==
    /\ pc = "adapter"
    /\ \E out \in AdapterOutcomes(AdapterFor(model)) :
         /\ response' = IF out.kind = "value" THEN out.value ELSE response
         /\ providerThrew' = (providerThrew \/ out.kind = "provider")
         /\ logFailed' = (logFailed \/ out.kind = "log")
         /\ heard' = Append(heard, Answer("adapter", out))
         /\ IF out.kind = "provider" /\ adapterCalls < 2
            THEN /\ pc' = "adapter"
                 /\ pending' = pending
                 /\ adapterCalls' = adapterCalls + 1
            ELSE /\ pc' = "finally"
                 /\ pending' = (out.kind # "value")
                 /\ adapterCalls' = adapterCalls
    /\ UNCHANGED <<others, CONFIG, body, platform, model, systemPrompt, jsonMatch, result,
                   limiterCalls, limiterSaid, catalogLookups, promptBuilds,
                   extractions>>

\* the awaited adapter call ends
AdapterReturn ==
    /\ pc = "adapter"
    /\ \E out \in AdapterOutcomes(AdapterFor(model)) :
         /\ response' = IF out.kind = "value" THEN out.value ELSE response
         /\ pending' = (out.kind # "value")
         /\ providerThrew' = (out.kind = "provider")
         /\ logFailed' = (logFailed \/ out.kind = "log")
         /\ heard' = Append(heard, Answer("adapter", out))
    /\ pc' = "finally"
    /\ UNCHANGED <<others, CONFIG, body, platform, model, systemPrompt, jsonMatch, result,
                   limiterCalls, limiterSaid, catalogLookups, promptBuilds,
                   adapterCalls, extractions>>

\* lines 253-258: the finally block logs the time; its own exception, or
\* the pending one, goes to the outer catch
FinallyLog ==
    /\ pc = "finally"
    /\ \E logged \in BOOLEAN :
         /\ pc' = IF pending \/ ~logged THEN "catch" ELSE "checkResponse"
         /\ logFailed' = (logFailed \/ ~logged)
         /\ heard' = Append(heard, LogAnswer(logged))
    /\ pending' = FALSE
    /\ UNCHANGED <<others, CONFIG, body, platform, model, systemPrompt, response, jsonMatch,
                   result, limiterCalls, limiterSaid, catalogLookups, promptBuilds,
                   adapterCalls, providerThrew, extractions>>

\* lines 260-264
CheckResponse ==
    /\ pc = "checkResponse"
    /\ IF Falsy(response)
       THEN pc' = "catch" /\ logFailed' = logFailed /\ heard' = heard
       ELSE \E logged \in BOOLEAN :
              /\ pc' = IF logged THEN "extract" ELSE "catch"
              /\ logFailed' = (logFailed \/ ~logged)
              /\ heard' = Append(heard, LogAnswer(logged))
    /\ UNCHANGED <<others, CONFIG, body, platform, model, systemPrompt, response, pending,
                   jsonMatch, result, limiterCalls, limiterSaid, catalogLookups,
                   promptBuilds, adapterCalls, providerThrew, extractions>>

\* Extract answering a completion without a document as a failed generation
ExtractAnsweringGeneric ==
    /\ pc = "extract"
    /\ extractions' = extractions + 1
    /\ jsonMatch' = Match(response[1])
    /\ IF jsonMatch' = None
       THEN /\ pc' = "done"
            /\ result' = ErrorResponse(500, "Failed to generate report", <<>>)
       ELSE pc' = "parse" /\ result' = result
    /\ UNCHANGED <<others, logFailed, heard, CONFIG, body, platform, model, systemPrompt, response, pending,
                   limiterCalls, limiterSaid, catalogLookups, promptBuilds,
                   adapterCalls, providerThrew>>

\* lines 266-273
Extract ==
    /\ pc = "extract"
    /\ extractions' = extractions + 1
    /\ jsonMatch' = Match(response[1])
    /\ IF jsonMatch' = None
       THEN /\ pc' = "done"
            /\ result' = ErrorResponse(500, "Invalid report format", <<>>)
       ELSE pc' = "parse" /\ result' = result
    /\ UNCHANGED <<others, logFailed, heard, CONFIG, body, platform, model, systemPrompt, response, pending,
                   limiterCalls, limiterSaid, catalogLookups, promptBuilds,
                   adapterCalls, providerThrew>>

\* lines 275-292: whatever throws inside this try, JSON.parse or the log
\* write, is answered as a parse failure
ParseReport ==
    /\ pc = "parse"
    /\ LET parsed == JSONparse(jsonMatch[1])
       IN \E logged \in BOOLEAN :
            /\ result' = IF parsed.ok /\ logged
                         THEN ReportResponse(AttachSources(parsed.val, body.sources))
                         ELSE ErrorResponse(500, "Failed to parse report format", <<>>)
            \* the log write is reached only when JSON.parse has returned
            /\ logFailed' = (logFailed \/ (parsed.ok /\ ~logged))
            /\ heard' = IF parsed.ok THEN Append(heard, LogAnswer(logged)) ELSE heard
    /\ pc' = "done"
    /\ UNCHANGED <<others, CONFIG, body, platform, model, systemPrompt, response, pending,
                   jsonMatch, limiterCalls, limiterSaid, catalogLookups,
                   promptBuilds, adapterCalls, providerThrew, extractions>>

\* lines 293-300: the outer catch logs before it answers; when that write
\* throws, the exception leaves POST
Catch ==
    /\ pc = "catch"
    /\ \E logged \in BOOLEAN :
         /\ logFailed' = (logFailed \/ ~logged)
         /\ heard' = Append(heard, LogAnswer(logged))
         /\ IF logged
            THEN /\ pc' = "done"
                 /\ result' = ErrorResponse(500, "Failed to generate report", <<>>)
            ELSE pc' = "thrown" /\ result' = result
    /\ UNCHANGED <<others, CONFIG, body, platform, model, systemPrompt, response, pending,
                   jsonMatch, limiterCalls, limiterSaid, catalogLookups,
                   promptBuilds, adapterCalls, providerThrew, extractions>>

Next ==
    \/ ParseBody
    \/ CheckRateLimit
    \/ SkipRateLimit
    \/ ResolveCatalog
    \/ BuildPrompt
    \/ Dispatch
    \/ AdapterReturn
    \/ FinallyLog
    \/ CheckResponse
    \/ Extract
    \/ ParseReport
    \/ Catch

Spec == Init /\ [][Next]_vars

----------------------------------------------------------------------------
(* The sibling handlers: search/route.ts and fetch-content/route.ts *)

\* the variables of the report request
reportVars == <<body, pc, platform, model, systemPrompt, response, pending,
                jsonMatch, result, limiterCalls, limiterSaid, catalogLookups,
                promptBuilds, adapterCalls, providerThrew, extractions, logFailed,
                heard>>

\* no report request is under way
NoReportRequest ==
    /\ body = InvalidBody
    /\ pc = "start"
    /\ platform = <<>>
    /\ model = <<>>
    /\ systemPrompt = None
    /\ response = None
    /\ pending = FALSE
    /\ jsonMatch = None
    /\ result = NoResult
    /\ limiterCalls = 0
    /\ limiterSaid = "nothing"
    /\ catalogLookups = 0
    /\ promptBuilds = 0
    /\ adapterCalls = 0
    /\ providerThrew = FALSE
    /\ extractions = 0
    /\ logFailed = FALSE
    /\ heard = <<>>

\* getFreshness(timeFilter)
getFreshness(timeFilter) ==
    CASE timeFilter = "24h"   -> "Day"
      [] timeFilter = "week"  -> "Week"
      [] timeFilter = "month" -> "Month"
      [] timeFilter = "year"  -> "Year"
      [] OTHER                -> ""

\* what the body may carry as timeFilter; "absent" is a body without it
TimeFilters == {"absent", "24h", "week", "month", "year", "all", "sometime"}

\* what the body may carry as query or url
Fields == {None, Some(""), Some("tla")}

\* NextResponse.json of the sibling handlers
SibResponse(code, message, data) == [status |-> code, error |-> message, data |-> data]
NoSibResponse == SibResponse(0, "", None)

\* a request to a sibling handler: what it carries (json: the body is a JSON
\* object), whether AZURE_SUB_KEY is set, where the handler is, and what it
\* has done
SibRequest(handler, json, field, timeFilter, key) ==
    [handler |-> handler, json |-> json, field |-> field,
     timeFilter |-> timeFilter, key |-> key,
     pc |-> "start", limiterCalls |-> 0, limiterSaid |-> "nothing",
     upstreamCalls |-> 0, freshness |-> None, threw |-> FALSE,
     result |-> NoSibResponse]

SibRequests ==
    {SibRequest("search", TRUE, f, t, k) :
        f \in Fields, t \in TimeFilters, k \in BOOLEAN}
    \cup {SibRequest("search", FALSE, None, "absent", k) : k \in BOOLEAN}
    \cup {SibRequest("fetch-content", TRUE, f, "absent", FALSE) : f \in Fields}
    \cup {SibRequest("fetch-content", FALSE, None, "absent", FALSE)}

SibInit ==
    /\ CONFIG \in {MakeConfig(limits, {}, {}) : limits \in BOOLEAN}
    /\ NoReportRequest
    /\ reqs = <<>>
    /\ sib \in SibRequests

\* !query, !url
Missing(field) == field = None \/ field = Some("")

\* what fetch can bring: a rejected promise, or a response with its status,
\* whose body may fail to be read
Upstreams ==
    {[kind |-> "throw", ok |-> FALSE, status |-> 0, readable |-> FALSE]}
    \cup {[kind |-> "response", ok |-> TRUE, status |-> 200, readable |-> r] :
             r \in BOOLEAN}
    \cup {[kind |-> "response", ok |-> FALSE, status |-> st, readable |-> TRUE] :
             st \in {404, 429}}

\* the step of a sibling handler leaves everything else alone
SibStep(handler, at) ==
    /\ sib.handler = handler
    /\ sib.pc = at
    /\ UNCHANGED <<CONFIG, reportVars, reqs>>

\* search lines 33-41: the body is read and query tested
SearchParseBody ==
    /\ SibStep("search", "start")
    /\ sib' = IF ~sib.json THEN [sib EXCEPT !.pc = "catch"]
              ELSE IF Missing(sib.field)
              THEN [sib EXCEPT !.pc = "done",
                      !.result = SibResponse(400, "Query parameter is required", None)]
              ELSE [sib EXCEPT !.pc = "rateLimit"]

\* search lines 43-57 with rate limiting enabled
SearchCheckRateLimit ==
    /\ SibStep("search", "rateLimit")
    /\ CONFIG.rateLimits.enabled
    /\ \E answer \in {"success", "reject", "throw"}, logged \in BOOLEAN :
         LET asked == [sib EXCEPT !.limiterCalls = @ + 1, !.limiterSaid = answer]
         IN sib' = IF answer = "throw" \/ ~logged
                   THEN [asked EXCEPT !.pc = "catch"]
                   ELSE IF answer = "reject"
                   THEN [asked EXCEPT !.pc = "done",
                           !.result = SibResponse(429, "Too many requests", None)]
                   ELSE [asked EXCEPT !.pc = "key"]

\* search line 43 with rate limiting disabled
SearchSkipRateLimit ==
    /\ SibStep("search", "rateLimit")
    /\ ~CONFIG.rateLimits.enabled
    /\ sib' = [sib EXCEPT !.pc = "key"]

\* SearchCheckKey going on without a subscription key
SearchCheckKeyUnchecked ==
    /\ SibStep("search", "key")
    /\ sib' = [sib EXCEPT !.pc = "fetch"]

\* search lines 59-65
SearchCheckKey ==
    /\ SibStep("search", "key")
    /\ sib' = IF ~sib.key
              THEN [sib EXCEPT !.pc = "done",
                      !.result = SibResponse(500, "Search API key not configured", None)]
              ELSE [sib EXCEPT !.pc = "fetch"]

\* search lines 67-87: the parameters, freshness when there is one, and the
\* call of the search API
SearchFetch ==
    /\ SibStep("search", "fetch")
    /\ LET freshness == getFreshness(sib.timeFilter)
       IN sib' = [sib EXCEPT !.pc = "upstream",
                     !.upstreamCalls = @ + 1,
                     !.freshness = IF freshness # "" THEN Some(freshness) ELSE None]

\* search lines 88-104: the call ends; two log writes, the status test and
\* response.json() may throw
SearchReturn ==
    /\ SibStep("search", "upstream")
    /\ \E up \in Upstreams, logged \in BOOLEAN :
         sib' = IF up.kind = "response" /\ up.ok /\ up.readable /\ logged
                THEN [sib EXCEPT !.pc = "done",
                        !.result = SibResponse(200, "", Some("data"))]
                ELSE [sib EXCEPT !.pc = "catch"]

\* search lines 105-112
SearchCatch ==
    /\ SibStep("search", "catch")
    /\ \E logged \in BOOLEAN :
         sib' = IF logged
                THEN [sib EXCEPT !.pc = "done",
                        !.result = SibResponse(500, "Failed to fetch search results", None)]
                ELSE [sib EXCEPT !.pc = "thrown", !.threw = TRUE]

\* fetch-content lines 13-18
FetchParseBody ==
    /\ SibStep("fetch-content", "start")
    /\ sib' = IF ~sib.json THEN [sib EXCEPT !.pc = "catchOuter"]
              ELSE IF Missing(sib.field)
              THEN [sib EXCEPT !.pc = "done",
                      !.result = SibResponse(400, "URL is required", None)]
              ELSE [sib EXCEPT !.pc = "rateLimit"]

\* fetch-content lines 21-29 with rate limiting enabled
FetchCheckRateLimit ==
    /\ SibStep("fetch-content", "rateLimit")
    /\ CONFIG.rateLimits.enabled
    /\ \E answer \in {"success", "reject", "throw"} :
         LET asked == [sib EXCEPT !.limiterCalls = @ + 1, !.limiterSaid = answer]
         IN sib' = CASE answer = "throw"   -> [asked EXCEPT !.pc = "catchOuter"]
                     [] answer = "reject"  ->
                          [asked EXCEPT !.pc = "done",
                             !.result = SibResponse(429, "Too many requests", None)]
                     [] answer = "success" -> [asked EXCEPT !.pc = "fetch"]

\* fetch-content line 21 with rate limiting disabled
FetchSkipRateLimit ==
    /\ SibStep("fetch-content", "rateLimit")
    /\ ~CONFIG.rateLimits.enabled
    /\ sib' = [sib EXCEPT !.pc = "fetch"]

\* fetch-content lines 31-38: the call of the content-extraction API
FetchFetch ==
    /\ SibStep("fetch-content", "fetch")
    /\ sib' = [sib EXCEPT !.pc = "upstream", !.upstreamCalls = @ + 1]

\* fetch-content lines 40-57: the call ends; the log write and
\* response.text() may throw, a response that is not ok is passed on with
\* its status
FetchReturn ==
    /\ SibStep("fetch-content", "upstream")
    /\ \E up \in Upstreams, logged \in BOOLEAN :
         sib' = IF up.kind = "throw" \/ ~logged
                THEN [sib EXCEPT !.pc = "catchInner"]
                ELSE IF ~up.ok
                THEN [sib EXCEPT !.pc = "done",
                        !.result = SibResponse(up.status, "Failed to fetch content", None)]
                ELSE IF ~up.readable
                THEN [sib EXCEPT !.pc = "catchInner"]
                ELSE [sib EXCEPT !.pc = "done",
                        !.result = SibResponse(200, "", Some("content"))]

\* fetch-content lines 58-65; an exception of its log write goes to the
\* outer catch
FetchCatchInner ==
    /\ SibStep("fetch-content", "catchInner")
    /\ \E logged \in BOOLEAN :
         sib' = IF logged
                THEN [sib EXCEPT !.pc = "done",
                        !.result = SibResponse(500, "Failed to fetch content", None)]
                ELSE [sib EXCEPT !.pc = "catchOuter"]

\* fetch-content lines 67-72
FetchCatchOuter ==
    /\ SibStep("fetch-content", "catchOuter")
    /\ \E logged \in BOOLEAN :
         sib' = IF logged
                THEN [sib EXCEPT !.pc = "done",
                        !.result = SibResponse(400, "Invalid request", None)]
                ELSE [sib EXCEPT !.pc = "thrown", !.threw = TRUE]

SibNext ==
    \/ SearchParseBody
    \/ SearchCheckRateLimit
    \/ SearchSkipRateLimit
    \/ SearchCheckKey
    \/ SearchFetch
    \/ SearchReturn
    \/ SearchCatch
    \/ FetchParseBody
    \/ FetchCheckRateLimit
    \/ FetchSkipRateLimit
    \/ FetchFetch
    \/ FetchReturn
    \/ FetchCatchInner
    \/ FetchCatchOuter

SiblingSpec == SibInit /\ [][SibNext]_vars

----------------------------------------------------------------------------
(* Requests running concurrently: POST is an async function, and while one
   request waits at an await the event loop runs another *)

NumRequests == 2

\* the variables of the request that is running, as one record
Snapshot ==
    [body |-> body,
     pc |-> pc,
     platform |-> platform,
     model |-> model,
     systemPrompt |-> systemPrompt,
     response |-> response,
     pending |-> pending,
     jsonMatch |-> jsonMatch,
     result |-> result,
     limiterCalls |-> limiterCalls,
     limiterSaid |-> limiterSaid,
     catalogLookups |-> catalogLookups,
     promptBuilds |-> promptBuilds,
     adapterCalls |-> adapterCalls,
     providerThrew |-> providerThrew,
     extractions |-> extractions,
     logFailed |-> logFailed,
     heard |-> heard]

\* a request that has arrived and not started
Fresh(b) ==
    [body |-> b, pc |-> "start", platform |-> <<>>, model |-> <<>>,
     systemPrompt |-> None, response |-> None, pending |-> FALSE,
     jsonMatch |-> None, result |-> NoResult, limiterCalls |-> 0,
     limiterSaid |-> "nothing", catalogLookups |-> 0, promptBuilds |-> 0,
     adapterCalls |-> 0, providerThrew |-> FALSE, extractions |-> 0,
     logFailed |-> FALSE, heard |-> <<>>]

\* the place in reqs.saved of the request that is running
Running == [Fresh(InvalidBody) EXCEPT !.pc = "running"]

\* the bodies of the concurrent requests: complete requests that differ in
\* the selector only, one of the catalog and one of an unknown platform
ConcBodies ==
    {[json |-> TRUE, prompt |-> Some("compare"),
      selectedResults |-> Some(<<"article1">>),
      sources |-> Some(<<"src1", "src2">>), platformModel |-> Str(sel)] :
        sel \in {<<"google", SEP, "gemini-flash">>,
                 <<"mistral", SEP, "gemini-flash">>}}

\* reqs.cur is the request whose variables are the handler's variables,
\* reqs.saved holds the others, reqs.catalog is CONFIG as it was imported
ConcInit ==
    /\ CONFIG \in {MakeConfig(limits, {}, {}) : limits \in BOOLEAN}
    /\ sib = [handler |-> "none"]
    /\ \E bodies \in [1..NumRequests -> ConcBodies] :
         /\ reqs = [cur |-> 1,
                    saved |-> [i \in 1..NumRequests |->
                                 IF i = 1 THEN Running ELSE Fresh(bodies[i])],
                    catalog |-> CONFIG]
         /\ body = bodies[1]
    /\ pc = "start"
    /\ platform = <<>>
    /\ model = <<>>
    /\ systemPrompt = None
    /\ response = None
    /\ pending = FALSE
    /\ jsonMatch = None
    /\ result = NoResult
    /\ limiterCalls = 0
    /\ limiterSaid = "nothing"
    /\ catalogLookups = 0
    /\ promptBuilds = 0
    /\ adapterCalls = 0
    /\ providerThrew = FALSE
    /\ extractions = 0
    /\ logFailed = FALSE
    /\ heard = <<>>

\* the running request is at an await (request.json() at line 101, the
\* limiter at line 117, the provider call inside an adapter) or has ended
Awaiting == pc \in {"start", "rateLimit", "adapter", "done", "thrown"}

\* the event loop leaves the running request where it waits and goes on
\* with request j
Resume(j) ==
    /\ Awaiting
    /\ j # reqs.cur
    /\ reqs.saved[j].pc \notin {"done", "thrown"}
    /\ reqs' = [reqs EXCEPT !.cur = j,
                            !.saved[reqs.cur] = Snapshot,
                            !.saved[j] = Running]
    /\ body' = reqs.saved[j].body
    /\ pc' = reqs.saved[j].pc
    /\ platform' = reqs.saved[j].platform
    /\ model' = reqs.saved[j].model
    /\ systemPrompt' = reqs.saved[j].systemPrompt
    /\ response' = reqs.saved[j].response
    /\ pending' = reqs.saved[j].pending
    /\ jsonMatch' = reqs.saved[j].jsonMatch
    /\ result' = reqs.saved[j].result
    /\ limiterCalls' = reqs.saved[j].limiterCalls
    /\ limiterSaid' = reqs.saved[j].limiterSaid
    /\ catalogLookups' = reqs.saved[j].catalogLookups
    /\ promptBuilds' = reqs.saved[j].promptBuilds
    /\ adapterCalls' = reqs.saved[j].adapterCalls
    /\ providerThrew' = reqs.saved[j].providerThrew
    /\ extractions' = reqs.saved[j].extractions
    /\ logFailed' = reqs.saved[j].logFailed
    /\ heard' = reqs.saved[j].heard
    /\ UNCHANGED <<CONFIG, sib>>

\* the completions the providers return to concurrent requests: a document,
\* text without one, or none
ConcCompletions == {None, Some(<<>>), Some(GoodDocument), Some(<<"prose">>)}

ConcNext ==
    \/ ParseBody
    \/ CheckRateLimit
    \/ SkipRateLimit
    \/ ResolveCatalog
    \/ BuildPrompt
    \/ Dispatch
    \/ AdapterReturn /\ response' \in ConcCompletions
    \/ FinallyLog
    \/ CheckResponse
    \/ Extract
    \/ ParseReport
    \/ Catch
    \/ \E j \in 1..NumRequests : Resume(j)

ConcSpec == ConcInit /\ [][ConcNext]_vars

----------------------------------------------------------------------------
(* Notions the properties are stated in *)

Finished == pc \in {"done", "thrown"}

\* the request carries a selector string; the selector the handler uses
\* (the one sent, or the default) is a string; the pieces of that string
SelectorSent == body.json /\ body.platformModel.type = "string"
SelectorIsString == body.json /\ PlatformModel.type = "string"
HasSeparator == \E i \in 1..Len(PlatformModel.str) : PlatformModel.str[i] = SEP
PlatformSegment == Split(PlatformModel.str)[1]
ModelSegment ==
    IF Len(Split(PlatformModel.str)) >= 2 THEN Split(PlatformModel.str)[2] ELSE <<>>

\* the catalog's own entries
PlatformExists == Len(PlatformSegment) = 1 /\ PlatformSegment[1] \in Platforms
PlatformOn == PlatformExists /\ CONFIG.platforms[PlatformSegment[1]].enabled
ModelExists ==
    /\ PlatformExists
    /\ Len(ModelSegment) = 1
    /\ ModelSegment[1] \in ModelsOf(PlatformSegment[1])
ModelOn ==
    /\ ModelExists
    /\ CONFIG.platforms[PlatformSegment[1]].models[ModelSegment[1]].enabled

\* the selector names an entry that is enabled, platform and model
EntryOn == PlatformOn /\ ModelOn

CatalogErrors == {"platform is not enabled", "model does not exist", "model is disabled"}

----------------------------------------------------------------------------
(* Properties *)

\* C1: catalog resolution reports the first failing check in the order
\* platform existence, platform enabled, model existence, model enabled: a
\* selector of a disabled platform is answered "platform is not enabled"
\* whatever its model segment, and a selector of an enabled platform whose
\* model does not exist is answered "model does not exist", never "model is
\* disabled".
C1_CatalogPrecedence ==
    (SelectorSent /\ catalogLookups = 1) =>
        /\ (PlatformExists /\ ~PlatformOn) =>
              (pc = "done" /\ result.error = "platform is not enabled")
        /\ (PlatformOn /\ ~ModelExists) =>
              (pc = "done" /\ result.error = "model does not exist")

\* C2: every answer is an explicit error or a report with a non-empty title
\* and at least one section.
C2_ReportIsWellFormed ==
    pc = "done" =>
        IF result.report = None
        THEN result.error # ""
        ELSE /\ result.report[1].title \notin {None, Some("")}
             /\ result.report[1].sections # None
             /\ Len(result.report[1].sections[1]) >= 1

\* C3: a selector string without the separator is refused as an invalid
\* request, an answer different from every catalog error, and no adapter is
\* called for it.
C3_SelectorWithoutSeparator ==
    (SelectorSent /\ ~HasSeparator /\ pc = "done" /\ result.status \notin {429, 500})
        => /\ result.status = 400
           /\ result.error \notin CatalogErrors
           /\ adapterCalls = 0

\* C4: a request whose prompt is missing or empty is refused by validation
\* with a client error before the rate limiter, the catalog or an adapter is
\* used.
C4_EmptyPromptRejected ==
    (body.json /\ body.prompt \in {None, Some("")}) =>
        /\ limiterCalls = 0
        /\ catalogLookups = 0
        /\ adapterCalls = 0
        /\ Finished => (pc = "done" /\ result.status = 400)

\* C5: once the rate limiter has rejected the request, the catalog is not
\* resolved, no prompt is built, no adapter is called, and the request ends
\* with the rate-limit answer.
C5_RateLimitShortCircuit ==
    limiterSaid = "reject" =>
        /\ catalogLookups = 0
        /\ promptBuilds = 0
        /\ adapterCalls = 0
        /\ Finished => (pc = "done" /\ result.status = 429)

\* C6: a request whose selector fails catalog resolution (unknown or
\* disabled platform, unknown or disabled model) is answered with a client
\* error and no adapter is called.
C6_CatalogFailureIsClientError ==
    (SelectorIsString /\ catalogLookups = 1 /\ ~(PlatformOn /\ ModelOn)) =>
        (pc = "done" /\ result.status = 400 /\ adapterCalls = 0)

C6_Witness ==
    /\ SelectorIsString /\ catalogLookups = 1
    /\ PlatformOn /\ ModelExists /\ ~ModelOn
    /\ pc = "done"

\* C7: a request makes at most one adapter call, exactly one when it ends
\* with a report, and after a provider error it makes no further call and
\* ends as a failure.
\* (The failure is the answer "Failed to generate report"; when the log
\* write of the catch block throws there is no answer at all, see C10.)
C7_OneAdapterCall ==
    /\ adapterCalls <= 1
    /\ result.status = 200 => adapterCalls = 1
    /\ providerThrew =>
          /\ adapterCalls = 1
          /\ pc \in {"finally", "catch", "done", "thrown"}
          /\ result.report = None
          /\ pc = "done" => result = ErrorResponse(500, "Failed to generate report", <<>>)

C7_Witness == providerThrew /\ pc = "done" /\ adapterCalls = 1

\* C8: in a successful answer sources is the request's sources, whatever the
\* completion holds, and title, summary and sections are those of the
\* document extracted from the completion.
C8_SourcesVerbatim ==
    result.status = 200 =>
        LET doc == JSONparse(Match(response[1])[1]).val
            report == result.report[1]
        IN /\ report.sources = body.sources
           /\ report.title = doc.title
           /\ report.summary = doc.summary
           /\ report.sections = doc.sections

C8_Witness ==
    /\ result.status = 200
    /\ body.sources = Some(<<"src1", "src2">>)
    /\ JSONparse(Match(response[1])[1]).val.sources = Some(<<"fromModel">>)

\* C9: extraction fails with "Invalid report format" exactly when the
\* completion holds no "{"; a completion with a "{" whose span is no document
\* fails with "Failed to parse report format"; a document in prose is found.
C9_ExtractionFailureKinds ==
    (extractions = 1 /\ Finished) =>
        LET text == response[1]
            hasBrace == \E i \in 1..Len(text) : text[i] = "{"
        IN /\ (result.error = "Invalid report format") <=> ~hasBrace
           /\ (hasBrace /\ (jsonMatch = None \/ ~JSONparse(jsonMatch[1]).ok)) =>
                 result.error = "Failed to parse report format"
           /\ text = <<"prose">> \o GoodDocument \o <<"prose">> =>
                 jsonMatch = Some(GoodDocument)

\* C10: POST always ends by returning a response; no exception leaves it.
C10_NoUnhandledException ==
    /\ pc # "thrown"
    /\ Finished => result # NoResult

\* the collaborators of the request have answered normally so far: the rate
\* limiter has neither rejected nor thrown, and every log write has returned
Cooperative == limiterSaid \notin {"reject", "throw"} /\ ~logFailed

\* C11: a failed request is answered in exactly one of three categories: a
\* fault of the request's input (unknown or disabled platform or model, a
\* missing selectedResults) as a client error,
\* a rejection by the rate limiter as 429, and a failure after the adapter was
\* called as a generation failure; no input fault is answered as a
\* generation failure.
C11_DisjointFailureCategories ==
    (pc = "done" /\ result.report = None /\ SelectorIsString /\ ~logFailed
       /\ limiterSaid # "throw") =>
        /\ result.status \in {400, 429, 500}
        /\ (result.status = 429) <=> (limiterSaid = "reject")
        /\ (/\ limiterSaid # "reject"
            /\ \/ body.selectedResults = None
               \/ ~EntryOn) => result.status = 400
        /\ adapterCalls = 1 => result.status = 500

\* C12: a request without platformModel uses a default selector that names
\* one entry of the catalog, and with that entry enabled the request passes
\* catalog resolution.
C12_DefaultSelectorResolves ==
    (body.json /\ body.platformModel = Absent /\ catalogLookups = 1) =>
        /\ ModelExists
        /\ EntryOn => result.error \notin CatalogErrors

\* C13: the answer to a selector whose platform is not in the catalog differs
\* from the answer given for a platform that is there but disabled, and the
\* answer to a model that is not in the catalog differs from the answer given
\* for a disabled model.
C13_CatalogFailuresDistinct ==
    (SelectorSent /\ HasSeparator /\ catalogLookups = 1 /\ pc = "done") =>
        /\ ~PlatformExists =>
              <<result.status, result.error>> # <<400, "platform is not enabled">>
        /\ (PlatformOn /\ ~ModelExists) =>
              <<result.status, result.error>> # <<400, "model is disabled">>

\* C14: extraction is attempted only on a completion an adapter has
\* returned, and a failed extraction is answered "Invalid report format" or
\* "Failed to parse report format", never with the answer "Failed to
\* generate report" that a throwing provider call gets.
C14_ExtractionFailureDiffers ==
    /\ extractions >= 1 =>
          /\ extractions = 1 /\ adapterCalls = 1
          /\ ~providerThrew
          /\ response \notin {None, Some(<<>>)}
    /\ (extractions = 1 /\ pc = "done" /\ result.report = None) =>
          /\ result.status = 500
          /\ result.error \in {"Invalid report format", "Failed to parse report format"}
    /\ (providerThrew /\ pc = "done") =>
          /\ extractions = 0
          /\ result = ErrorResponse(500, "Failed to generate report", <<>>)

C14_Witness ==
    /\ extractions = 1 /\ pc = "done"
    /\ jsonMatch = None
    /\ result.error = "Invalid report format"

\* C15: with rate limiting disabled the limiter is never called and the
\* request goes from the parsed body straight to catalog resolution; with
\* rate limiting enabled the limiter is called exactly once by every request
\* that has got past the rate-limit check.
C15_LimiterUse ==
    /\ limiterCalls <= 1
    /\ ~CONFIG.rateLimits.enabled =>
          /\ limiterCalls = 0 /\ limiterSaid = "nothing"
          /\ (body.json /\ pc \notin {"start", "rateLimit"}) =>
                (pc = "resolve" \/ catalogLookups = 1 \/ PlatformModel.type # "string")
    /\ (CONFIG.rateLimits.enabled /\ body.json /\ pc \notin {"start", "rateLimit"}) =>
          limiterCalls = 1
    /\ limiterCalls = 1 => (body.json /\ pc \notin {"start", "rateLimit"})

C15_Witness ==
    /\ ~CONFIG.rateLimits.enabled
    /\ catalogLookups = 1 /\ adapterCalls = 1
    /\ limiterCalls = 0

\* the request of C16: no articles, no sources, a prompt, and a selector of
\* an enabled entry the switch has a case for
EmptySelection ==
    /\ body.json
    /\ body.selectedResults = Some(<<>>)
    /\ body.sources = Some(<<>>)
    /\ body.prompt = Some("compare")
    /\ SelectorIsString /\ EntryOn
    /\ ModelSegment[1] # "gemini-pro"

\* the adapter has returned a completion that holds a JSON object
WellFormedCompletion ==
    /\ response \notin {None, Some(<<>>)}
    /\ Match(response[1]) # None
    /\ JSONparse(Match(response[1])[1]).ok

\* C16: with collaborators that answer normally, a request with an empty
\* selectedResults and empty sources goes through the rate-limit check,
\* catalog resolution, prompt building, one adapter call, extraction and
\* finalizing in that order, is never stuck, fails only for what the adapter
\* call brought, and on a well-formed completion ends with a report whose
\* sources is the empty sequence.
C16_EmptySelectionEndToEnd ==
    (EmptySelection /\ Cooperative) =>
        /\ pc # "thrown"
        /\ ~Finished => ENABLED Next
        /\ pc = "resolve" =>
              /\ limiterCalls = (IF CONFIG.rateLimits.enabled THEN 1 ELSE 0)
              /\ catalogLookups = 0
        /\ pc = "prompt" => (catalogLookups = 1 /\ promptBuilds = 0)
        /\ pc = "dispatch" =>
              /\ promptBuilds = 1 /\ adapterCalls = 0
              /\ systemPrompt[1].articles = <<>>
        /\ pc \in {"adapter", "finally", "checkResponse", "extract"} =>
              (adapterCalls = 1 /\ extractions = 0)
        /\ pc = "parse" => (extractions = 1 /\ result = NoResult)
        /\ pc = "catch" => (adapterCalls = 1 /\ ~WellFormedCompletion)
        /\ pc = "done" =>
              /\ limiterCalls = (IF CONFIG.rateLimits.enabled THEN 1 ELSE 0)
              /\ catalogLookups = 1 /\ promptBuilds = 1 /\ adapterCalls = 1
              /\ IF WellFormedCompletion
                 THEN /\ extractions = 1
                      /\ result.status = 200
                      /\ result.report[1].sources = Some(<<>>)
                 ELSE result.status = 500

C16_Witness ==
    /\ EmptySelection /\ Cooperative
    /\ CONFIG.rateLimits.enabled
    /\ pc = "done" /\ result.status = 200
    /\ result.report[1].sources = Some(<<>>)
    /\ result.report[1].title = Some("T")

\* C18: an enabled model of the catalog that the switch has no case for
\* fails without any adapter being called, and its answer is "Failed to
\* generate report", not the catalog's "model does not exist".
C18_UnsupportedModel ==
    (SelectorIsString /\ EntryOn /\ ModelSegment[1] = "gemini-pro"
       /\ catalogLookups = 1) =>
        /\ adapterCalls = 0
        /\ response = None
        /\ pc \in {"prompt", "dispatch", "finally", "catch", "done", "thrown"}
        /\ pc = "done" =>
              /\ result = ErrorResponse(500, "Failed to generate report", <<>>)
              /\ result.error # "model does not exist"

C18_Witness ==
    /\ SelectorIsString /\ EntryOn /\ ModelSegment[1] = "gemini-pro"
    /\ promptBuilds = 1 /\ body.selectedResults # None
    /\ pc = "done"

\* C19: when the adapter call has ended without text (null or the empty
\* string), no extraction is attempted, no report is answered, the adapter
\* is not called again, and the request ends as a failure.
C19_EmptyCompletion ==
    (adapterCalls >= 1 /\ pc # "adapter" /\ response \in {None, Some(<<>>)}) =>
        /\ adapterCalls = 1
        /\ extractions = 0
        /\ pc \in {"finally", "checkResponse", "catch", "done", "thrown"}
        /\ result.report = None
        /\ pc = "done" => result = ErrorResponse(500, "Failed to generate report", <<>>)

C19_Witness ==
    /\ response = Some(<<>>)
    /\ ~logFailed
    /\ pc = "done"

\* C20: in search and fetch-content a body without its query or url is
\* answered 400 before the rate limiter is asked and before the upstream API
\* is called; the upstream API is called at most once, and only for a
\* request that has its field, that the rate limiter (when enabled) has
\* accepted and, in search, with the API key configured.
C20_SiblingGuards ==
    /\ sib.upstreamCalls <= 1
    /\ (sib.json /\ sib.field \in {None, Some("")}) =>
          /\ sib.limiterCalls = 0
          /\ sib.upstreamCalls = 0
          /\ sib.pc \in {"start", "done"}
          /\ sib.pc = "done" =>
                sib.result = SibResponse(400,
                                IF sib.handler = "search"
                                THEN "Query parameter is required"
                                ELSE "URL is required", None)
    /\ sib.upstreamCalls = 1 =>
          /\ sib.json /\ sib.field = Some("tla")
          /\ sib.limiterCalls = (IF CONFIG.rateLimits.enabled THEN 1 ELSE 0)
          /\ CONFIG.rateLimits.enabled => sib.limiterSaid = "success"
          /\ sib.handler = "search" => sib.key

C20_Witness ==
    /\ sib.handler = "search"
    /\ CONFIG.rateLimits.enabled
    /\ sib.upstreamCalls = 1
    /\ sib.freshness = Some("Week")
    /\ sib.pc = "done" /\ sib.result.status = 200

\* request i, running or waiting
View(i) == IF i = reqs.cur THEN Snapshot ELSE reqs.saved[i]

\* C17: under every interleaving of concurrent requests, each request that
\* has got past the switch with a model that has a case has made exactly one
\* adapter call of its own, also while another request with the same selector
\* and prompt is in flight; the catalog is as it was imported; and two
\* requests with the same body that heard the same answers to their own
\* calls have ended the same way.
C17_RequestsIndependent ==
    /\ CONFIG = reqs.catalog
    /\ \A i \in 1..NumRequests :
         LET r == View(i)
         IN /\ r.adapterCalls <= 1
            /\ r.adapterCalls = 1 <=>
                  /\ r.promptBuilds = 1
                  /\ r.pc # "dispatch"
                  /\ AdapterFor(r.model) # "none"
            /\ r.pc \in {"finally", "checkResponse", "extract", "parse"} =>
                  Cardinality({k \in DOMAIN r.heard : r.heard[k].who = "adapter"}) = 1
    /\ \A i, j \in 1..NumRequests :
         LET r == View(i)
             q == View(j)
         IN (/\ r.pc \in {"done", "thrown"} /\ q.pc \in {"done", "thrown"}
             /\ r.body = q.body /\ r.heard = q.heard) =>
               (r.pc = q.pc /\ r.result = q.result)

\* two requests with the same selector and prompt, both waiting for their
\* own adapter call
C17_Witness ==
    /\ View(1).body = View(2).body
    /\ View(1).pc = "adapter" /\ View(2).pc = "adapter"
    /\ View(1).adapterCalls = 1 /\ View(2).adapterCalls = 1

====
